---------------------------- MODULE Spec2Model ----------------------------
(***************************************************************************)
(* A model of ESPEI's context assembly (espei/error_functions/context.py:  *)
(* _reduce_database, setup_context) and of the parameter selection of      *)
(* paramselect.py (_build_feature_matrix, _fit_parameters,                 *)
(* fit_formation_energy).                                                  *)
(*                                                                         *)
(* Python objects that are mutated in place (the pycalphad Database) live  *)
(* in a heap indexed by reference, so that copying and aliasing are        *)
(* distinguishable.  Strings that the code sorts or matches against a      *)
(* pattern are sequences of characters.                                    *)
(***************************************************************************)
EXTENDS Integers, Sequences, FiniteSets, TLC

VARIABLES
    heap,              \* Ref -> Database object (or NoDatabase)
    elements,          \* _reduce_database: the `elements` argument
    calls,             \* _reduce_database: number of calls made so far
    before,            \* _reduce_database: the databases seen before each call
    dbf,               \* setup_context: the reference its name dbf is bound to
    phase_models,      \* setup_context: None, the dict passed, then the specification
    symbols_to_fit,    \* setup_context: None or the list passed, then the sorted list
    registry,          \* residual_function_registry: classes in registration order
    residual_objs,     \* setup_context: the residual objects built so far
    error_context,     \* setup_context: the returned context, None until it returns
    pc,                \* setup_context: the position in the function
    exc,               \* setup_context: the exception it raised, if any
    original,          \* history: the caller's database when setup_context was called
    reduced,           \* history: the copy as _reduce_database left it
    datasets,          \* fit_formation_energy: the documents of the dataset store
    features,          \* fit_formation_energy: None or the dict passed, then the dict used
    configuration,     \* fit_formation_energy: the sublattice configuration
    parameters,        \* the OrderedDict of fitted coefficients
    prop,              \* the property of the current query, matrix and fit
    feature_tuple,     \* _fit_parameters, _build_feature_matrix: the candidate features
    desired_data,      \* the records the last query returned
    feature_matrix,    \* the matrix _build_feature_matrix returned
    data_quantities,   \* the response vector handed to _fit_parameters
    regression,        \* what LinearRegression finds for the current matrix and response
    fits,              \* history: the calls of _fit_parameters, with what each returned
    fpc,               \* paramselect: the position in the function
    fexc               \* paramselect: the exception raised, if any

reduceVars == <<elements, calls, before>>
contextVars == <<dbf, phase_models, symbols_to_fit, registry, residual_objs,
                 error_context, pc, exc, original, reduced>>
fitVars == <<datasets, features, configuration, parameters, prop, feature_tuple,
             desired_data, feature_matrix, data_quantities, regression, fits, fpc, fexc>>
vars == <<heap, reduceVars, contextVars, fitVars>>

-----------------------------------------------------------------------------
(* Python values *)

\* Optional values: None and a present value are kept apart by a tag.
None == [some |-> FALSE, val |-> <<>>]
Some(v) == [some |-> TRUE, val |-> v]

\* Code points of the characters that occur in the symbol names of the model.
Ord(c) ==
    CASE c = "0" -> 48 [] c = "1" -> 49 [] c = "2" -> 50 [] c = "3" -> 51
      [] c = "4" -> 52 [] c = "5" -> 53 [] c = "6" -> 54 [] c = "7" -> 55
      [] c = "8" -> 56 [] c = "9" -> 57 [] c = "T" -> 84 [] c = "V" -> 86
      [] c = "X" -> 88

\* Python's str comparison a < b: lexicographic on code points.
RECURSIVE StrLess(_, _)
StrLess(a, b) ==
    IF b = <<>> THEN FALSE
    ELSE IF a = <<>> THEN TRUE
    ELSE IF Ord(Head(a)) # Ord(Head(b)) THEN Ord(Head(a)) < Ord(Head(b))
    ELSE StrLess(Tail(a), Tail(b))

\* Insert x into the sorted list s, after the elements equal to it.
RECURSIVE Insert(_, _)
Insert(x, s) ==
    IF s = <<>> THEN <<x>>
    ELSE IF StrLess(x, Head(s)) THEN <<x>> \o s
    ELSE <<Head(s)>> \o Insert(x, Tail(s))

\* Python's sorted() of a list of str.
RECURSIVE Sorted(_)
Sorted(s) ==
    IF s = <<>> THEN <<>> ELSE Insert(s[Len(s)], Sorted(SubSeq(s, 1, Len(s) - 1)))

\* The elements of a list, as a set.
Range(s) == {s[i] : i \in DOMAIN s}

\* All lists over S of length at most n.
SeqsUpTo(S, n) == UNION {[1..k -> S] : k \in 0..n}

-----------------------------------------------------------------------------
(* The database *)

\* Symbol names: str, as sequences of characters.
nVV0000 == <<"V", "V", "0", "0", "0", "0">>
nVV0001 == <<"V", "V", "0", "0", "0", "1">>
nV1 == <<"V", "1">>
nVX == <<"V", "X">>
nX == <<"X">>
nT == <<"T">>

\* The names a symbol table may define (T is the temperature state variable,
\* which parameters use and no symbol table defines).
SymbolNames == {nVV0000, nVV0001, nV1, nVX, nX}

\* symengine expressions: an arithmetic expression, a condition, a Piecewise.
\* The args of a Piecewise are its branches flattened: expr, cond, expr, cond.
Expr(n) == [kind |-> "Expr", id |-> n, args |-> <<>>]
Cond(n) == [kind |-> "Cond", id |-> n, args |-> <<>>]
Piecewise(a) == [kind |-> "Piecewise", id |-> 0, args |-> a]

PW1 == Piecewise(<<Expr(1), Cond(1), Expr(2), Cond(2)>>)
PW2 == Piecewise(<<Expr(2), Cond(1), Expr(1), Cond(2)>>)

\* A parameter document of dbf._parameters: the constituent array (one list of
\* species names per sublattice) and the free symbols of its expression.
Parameter(ca, fs) == [constituent_array |-> ca, free_symbols |-> fs]

pA == Parameter(<<<<"A">>>>, {nVV0000, nT})
pAB == Parameter(<<<<"A", "B">>>>, {nVV0001, nX, nT})
pAC == Parameter(<<<<"A">>, <<"C">>>>, {nV1, nX})
pBVA == Parameter(<<<<"B">>, <<"VA">>>>, {nVX})

ParameterUniverse == {pA, pAB, pAC, pBVA}

\* A Database object: the parameter table and the symbol table.
Database(ps, st) == [parameters |-> ps, symbols |-> st]

\* The reference the caller of an operation holds its database under, and the
\* references of the heap.
CallerRef == 1
Refs == {1, 2}

\* An unallocated heap cell.
NoDatabase == Database(<<>>, <<>>)

\* All symbol tables over the names, with values in V.
SymbolTables(V) == UNION {[D -> V] : D \in SUBSET SymbolNames}


\* The variables of setup_context, while another operation is modelled.
ContextIdle ==
    /\ dbf = CallerRef
    /\ phase_models = None
    /\ symbols_to_fit = None
    /\ registry = <<>>
    /\ residual_objs = <<>>
    /\ error_context = None
    /\ pc = "idle"
    /\ exc = "none"
    /\ original = NoDatabase
    /\ reduced = NoDatabase

\* The variables of _reduce_database, while another operation is modelled.
ReduceIdle ==
    /\ elements = None
    /\ calls = 0
    /\ before = <<>>

\* An exception names the code that raised it.
Exception(origin, message) == [origin |-> origin, message |-> message]
NoException == Exception("", "")

\* A numpy array of two dimensions: its shape and its rows.
Matrix(m, n, rows) == [shape |-> <<m, n>>, rows |-> rows]

\* The variables of paramselect, while another operation is modelled.
FitIdle ==
    /\ datasets = <<>>
    /\ features = None
    /\ configuration = <<>>
    /\ parameters = <<>>
    /\ prop = ""
    /\ feature_tuple = <<>>
    /\ desired_data = <<>>
    /\ feature_matrix = Matrix(0, 0, <<>>)
    /\ data_quantities = <<>>
    /\ regression = <<>>
    /\ fits = <<>>
    /\ fpc = "idle"
    /\ fexc = NoException

-----------------------------------------------------------------------------
(* _reduce_database *)

\* Bounds of the reducer's specification.
MaxParameters == 2
MaxCalls == 2

\* [s.name for c in x for s in c]: the species names of a constituent array.
RECURSIVE SpeciesNames(_)
SpeciesNames(ca) ==
    IF ca = <<>> THEN <<>> ELSE Head(ca) \o SpeciesNames(Tail(ca))

\* espei.utils._not_subsystem: the constituents are not all among the elements.
NotSubsystem(constituents, elems) ==
    ~(Range(constituents) \subseteq Range(elems))

\* dbf._parameters.remove(query): the documents the query matches are removed,
\* the others keep their order.
RemoveParameters(ps, elems) ==
    SelectSeq(ps, LAMBDA p : ~NotSubsystem(SpeciesNames(p.constituent_array), elems))

\* The names of the free symbols of the parameters' expressions.
UsedSymbols(ps) == UNION {p.free_symbols : p \in Range(ps)}

\* A pruning that keeps every symbol.
PruneSymbolsKeepAll(st, symbols) == st

\* The symbol table restricted to the keys in `symbols`.
PruneSymbols(st, symbols) ==
    [key \in {k \in DOMAIN st : k \in symbols} |-> st[key]]

\* A reducer that prunes the symbol table before it removes the parameters.
reduce_database_prune_first(db, elems) ==
    IF ~elems.some THEN db
    ELSE Database(RemoveParameters(db.parameters, elems.val),
                  PruneSymbols(db.symbols, UsedSymbols(db.parameters)))

\* _reduce_database(dbf, elements): the database object after the call.
reduce_database(db, elems) ==
    IF ~elems.some THEN db
    ELSE LET ps == RemoveParameters(db.parameters, elems.val)
         IN Database(ps, PruneSymbols(db.symbols, UsedSymbols(ps)))

\* The element lists the reducer is called with.
ElementLists ==
    {None, Some(<<>>), Some(<<"A">>), Some(<<"A", "B">>), Some(<<"A", "B", "VA">>)}

ReduceInit ==
    /\ \E ps \in SeqsUpTo(ParameterUniverse, MaxParameters),
          st \in SymbolTables({Expr(1), PW1}) :
           heap = [r \in Refs |-> IF r = CallerRef THEN Database(ps, st) ELSE NoDatabase]
    /\ elements \in ElementLists
    /\ calls = 0
    /\ before = <<>>
    /\ ContextIdle
    /\ FitIdle

\* One call _reduce_database(dbf, elements) on the caller's database.
ReduceCall ==
    /\ calls < MaxCalls
    /\ heap' = [heap EXCEPT ![CallerRef] = reduce_database(@, elements)]
    /\ before' = Append(before, heap[CallerRef])
    /\ calls' = calls + 1
    /\ UNCHANGED <<elements, contextVars, fitVars>>

ReduceNext == ReduceCall

SpecReduce == ReduceInit /\ [][ReduceNext]_vars

\* C3: after _reduce_database with an element list, every remaining parameter
\* has all its species in the list, every parameter that had is still
\* present, and every key of the symbol table is a free symbol of a surviving
\* parameter.
C3_ReducedToSubsystem ==
    (calls >= 1 /\ elements.some) =>
        LET db == heap[CallerRef]
            pre == before[calls]
            Inside(p) == Range(SpeciesNames(p.constituent_array)) \subseteq Range(elements.val)
        IN /\ \A p \in Range(db.parameters) : Inside(p)
           /\ db.parameters = SelectSeq(pre.parameters, Inside)
           /\ \A key \in DOMAIN db.symbols :
                  /\ \E p \in Range(db.parameters) : key \in p.free_symbols
                  /\ key \in DOMAIN pre.symbols /\ db.symbols[key] = pre.symbols[key]

\* C3 witness: a first call removed a parameter, kept another and pruned a symbol.
C3_Witness ==
    /\ calls = 1 /\ elements.some
    /\ heap[CallerRef].parameters # <<>>
    /\ Len(heap[CallerRef].parameters) < Len(before[1].parameters)
    /\ DOMAIN heap[CallerRef].symbols # {}
    /\ DOMAIN heap[CallerRef].symbols # DOMAIN before[1].symbols

\* C4: a second call with the same element list changes nothing, and a call
\* with elements=None changes nothing at all.
C4_Idempotent ==
    /\ \A i \in 2..calls : heap[CallerRef] = before[i]
    /\ (~elements.some) => \A i \in 1..calls : heap[CallerRef] = before[i]

\* C4 witness: the first call changed the database and a second call was made.
C4_Witness ==
    /\ calls = 2 /\ elements.some
    /\ before[1] # before[2]
    /\ before[1].symbols # before[2].symbols

-----------------------------------------------------------------------------
(* setup_context *)

\* Bound of the context's specification: the number of registered classes.
MaxRegistry == 2

\* espei.phase_models.PhaseModelSpecification(**phase_models): the structured
\* form, of which setup_context reads the components.
PhaseModelSpecification(pm) == [components |-> pm.components]

\* A symbol name matches ^V[V]?([0-9]+)$.
IsDigit(c) == c \in {"0", "1", "2", "3", "4", "5", "6", "7", "8", "9"}
MatchesSymbolRegex(name) ==
    /\ Len(name) >= 2
    /\ name[1] = "V"
    /\ LET rest == SubSeq(name, IF name[2] = "V" THEN 3 ELSE 2, Len(name))
       IN rest # <<>> /\ \A i \in DOMAIN rest : IsDigit(rest[i])

\* The names of a set, as a list in increasing order.
RECURSIVE SortedList(_)
SortedList(S) ==
    IF S = {} THEN <<>>
    ELSE LET m == CHOOSE x \in S : \A y \in S \ {x} : StrLess(x, y)
         IN <<m>> \o SortedList(S \ {m})

\* espei.utils.database_symbols_to_fit(dbf): the symbols of the parameters'
\* expressions that match the naming convention, sorted.
database_symbols_to_fit(db) ==
    SortedList({n \in UsedSymbols(db.parameters) : MatchesSymbolRegex(n)})

\* residual_function_registry.get_registered_residual_functions(): the
\* registered classes, in registration order.
get_registered_residual_functions(reg) == reg

\* A "copy" that hands back the caller's own object.
DeepcopyAlias(h, ref) == [heap |-> h, ref |-> ref]

\* copy.deepcopy(dbf): a new object with the same contents, under a new reference.
Deepcopy(h, ref) ==
    LET new == CHOOSE r \in Refs : r # ref
    IN [heap |-> [h EXCEPT ![new] = h[ref]], ref |-> new]

\* A check for an empty list that never finds one.
NoDegreesOfFreedomNever(stf) == Len(stf) < 0

\* len(symbols_to_fit) == 0
NoDegreesOfFreedom(stf) == Len(stf) = 0

\* The last expression of a Piecewise instead of the first.
FirstBranchLast(v) == v.args[Len(v.args) - 1]

\* dbf.symbols[x].args[0]: the expression of the first branch.
FirstBranch(v) == v.args[1]

\* for x in symbols_to_fit: replace dbf.symbols[x] when it is a Piecewise.  The
\* loop stops with a KeyError at the first x the symbol table does not define.
RECURSIVE ReplacePiecewise(_, _)
ReplacePiecewise(st, syms) ==
    IF syms = <<>> THEN [symbols |-> st, raised |-> FALSE]
    ELSE LET x == Head(syms)
         IN IF x \notin DOMAIN st THEN [symbols |-> st, raised |-> TRUE]
            ELSE ReplacePiecewise(
                     IF st[x].kind = "Piecewise"
                     THEN [st EXCEPT ![x] = FirstBranch(st[x])] ELSE st,
                     Tail(syms))

\* A list that takes its new element at the front.
AppendResidualFront(objs, obj) == <<obj>> \o objs

\* residual_objs.append(residual_obj)
AppendResidual(objs, obj) == Append(objs, obj)

\* residual_func_class(dbf, datasets, phase_models, symbols_to_fit, ...): the
\* object records what it was constructed with, and the database as it was.
NewResidual(cls, h, ref, pm, stf) ==
    [cls |-> cls, dbf |-> ref, database |-> h[ref], phase_models |-> pm,
     symbols_to_fit |-> stf]

\* The classes that may be registered, and the registries of the model.
ResidualClasses ==
    <<"ZPFResidual", "ActivityResidual", "EquilibriumPropertyResidual",
      "FixedConfigurationPropertyResidual">>
Registries == {SubSeq(ResidualClasses, 1, n) : n \in 0..MaxRegistry}

\* The databases, phase models and symbol lists setup_context is called with.
ContextParameterLists ==
    {<<>>, <<pA>>, <<pA, pAB>>, <<pAC, pAB, pA>>, <<pAC, pBVA>>, <<pBVA, pAB>>}
ContextPhaseModels ==
    {None, Some([components |-> <<"A", "B">>]), Some([components |-> <<"A", "B", "VA">>])}
ContextSymbolLists ==
    {None, Some(<<>>), Some(<<nVV0001, nVV0000>>), Some(<<nX, nV1>>), Some(<<nVX>>)}

ContextInit ==
    /\ \E ps \in ContextParameterLists, st \in SymbolTables({Expr(2), PW1}) :
           /\ heap = [r \in Refs |-> IF r = CallerRef THEN Database(ps, st) ELSE NoDatabase]
           /\ original = Database(ps, st)
    /\ dbf = CallerRef
    /\ phase_models \in ContextPhaseModels
    /\ symbols_to_fit \in ContextSymbolLists
    /\ registry \in Registries
    /\ residual_objs = <<>>
    /\ error_context = None
    /\ pc = "call"
    /\ exc = "none"
    /\ reduced = NoDatabase
    /\ ReduceIdle
    /\ FitIdle

\* Lines 64-70: the phase models are parsed and the database is copied.
CopyDatabase ==
    /\ pc = "call"
    /\ phase_models' = IF phase_models.some
                       THEN Some(PhaseModelSpecification(phase_models.val))
                       ELSE phase_models
    /\ LET c == Deepcopy(heap, dbf)
       IN heap' = c.heap /\ dbf' = c.ref
    /\ pc' = "reduce"
    /\ UNCHANGED <<symbols_to_fit, registry, residual_objs, error_context, exc,
                   original, reduced, reduceVars, fitVars>>

\* Lines 71-77: the copy is reduced to the components of the phase models.
ReduceCopy ==
    /\ pc = "reduce"
    /\ LET reduced_comps == IF ~phase_models.some THEN None
                            ELSE Some(phase_models.val.components)
       IN heap' = [heap EXCEPT ![dbf] = reduce_database(@, reduced_comps)]
    /\ reduced' = heap'[dbf]
    /\ pc' = "select"
    /\ UNCHANGED <<dbf, phase_models, symbols_to_fit, registry, residual_objs,
                   error_context, exc, original, reduceVars, fitVars>>

\* Lines 79-86: the symbols to fit are discovered or sorted; none is an error.
SelectSymbols ==
    /\ pc = "select"
    /\ LET stf == IF ~symbols_to_fit.some THEN database_symbols_to_fit(heap[dbf])
                  ELSE Sorted(symbols_to_fit.val)
       IN /\ symbols_to_fit' = Some(stf)
          /\ IF NoDegreesOfFreedom(stf)
             THEN pc' = "raised" /\ exc' = "ValueError"
             ELSE pc' = "replace" /\ exc' = exc
    /\ UNCHANGED <<heap, dbf, phase_models, registry, residual_objs, error_context,
                   original, reduced, reduceVars, fitVars>>

\* Lines 87-90: the Piecewise values of the symbols to fit are replaced.
ReplaceSymbols ==
    /\ pc = "replace"
    /\ LET r == ReplacePiecewise(heap[dbf].symbols, symbols_to_fit.val)
       IN /\ heap' = [heap EXCEPT ![dbf].symbols = r.symbols]
          /\ IF r.raised
             THEN pc' = "raised" /\ exc' = "KeyError"
             ELSE pc' = "residuals" /\ exc' = exc
    /\ UNCHANGED <<dbf, phase_models, symbols_to_fit, registry, residual_objs,
                   error_context, original, reduced, reduceVars, fitVars>>

\* Lines 93-99, one iteration: the next registered class is instantiated.
InstantiateResidual ==
    /\ pc = "residuals"
    /\ LET classes == get_registered_residual_functions(registry)
           n == Len(residual_objs) + 1
       IN /\ n <= Len(classes)
          /\ residual_objs' = AppendResidual(residual_objs,
                 NewResidual(classes[n], heap, dbf, phase_models, symbols_to_fit.val))
    /\ UNCHANGED <<heap, dbf, phase_models, symbols_to_fit, registry, error_context,
                   pc, exc, original, reduced, reduceVars, fitVars>>

\* Line 96: the constructor of the next registered class raises.
ResidualRaises ==
    /\ pc = "residuals"
    /\ Len(residual_objs) < Len(get_registered_residual_functions(registry))
    /\ pc' = "raised"
    /\ exc' = "ResidualError"
    /\ UNCHANGED <<heap, dbf, phase_models, symbols_to_fit, registry, residual_objs,
                   error_context, original, reduced, reduceVars, fitVars>>

\* Lines 101-107: the context is returned.
ReturnContext ==
    /\ pc = "residuals"
    /\ Len(residual_objs) = Len(get_registered_residual_functions(registry))
    /\ error_context' = Some([symbols_to_fit |-> symbols_to_fit.val,
                              residual_objs |-> residual_objs])
    /\ pc' = "returned"
    /\ UNCHANGED <<heap, dbf, phase_models, symbols_to_fit, registry, residual_objs,
                   exc, original, reduced, reduceVars, fitVars>>

ContextNext ==
    \/ CopyDatabase
    \/ ReduceCopy
    \/ SelectSymbols
    \/ ReplaceSymbols
    \/ InstantiateResidual
    \/ ResidualRaises
    \/ ReturnContext

SpecContext == ContextInit /\ [][ContextNext]_vars

\* C1: a call to setup_context, whether it returns or raises, leaves the
\* caller's database (parameters and symbol table) as it was when called.
C1_OriginalUnchanged ==
    (pc # "idle") => heap[CallerRef] = original

\* C1 witness: the call is over (returned or raised) and the copy it worked on
\* lost parameters, lost symbols and had a Piecewise replaced.
C1_Witness ==
    /\ pc \in {"returned", "raised"}
    /\ dbf # CallerRef
    /\ Len(heap[dbf].parameters) < Len(original.parameters)
    /\ DOMAIN heap[dbf].symbols # DOMAIN original.symbols
    /\ \E x \in DOMAIN heap[dbf].symbols : heap[dbf].symbols[x] # original.symbols[x]

\* C2: when the list of symbols to fit is empty after the selection step,
\* setup_context raises a ValueError: it returns no context, replaces no
\* Piecewise value and instantiates no residual object.
C2_NoSymbolsRaises ==
    (pc \notin {"idle", "call", "reduce", "select"} /\ symbols_to_fit.val = <<>>) =>
        /\ pc = "raised"
        /\ exc = "ValueError"
        /\ error_context = None
        /\ residual_objs = <<>>
        /\ heap[dbf] = reduced

\* C2 witness: auto-discovery on a reduced database that still holds a
\* parameter and a Piecewise symbol found nothing to fit, and the call raised.
C2_Witness ==
    /\ pc = "raised" /\ exc = "ValueError"
    /\ symbols_to_fit = Some(<<>>)
    /\ phase_models.some
    /\ heap[dbf].parameters # <<>>
    /\ \E x \in DOMAIN heap[dbf].symbols : heap[dbf].symbols[x].kind = "Piecewise"
    /\ registry # <<>>

\* C9: when setup_context returns, every symbol to fit whose value in the
\* input database was a Piecewise has the first branch as its value in the
\* copy, every other symbol has the value reduction left it, and every
\* residual object was built on the database in that final form.
C9_PiecewiseReplaced ==
    /\ (pc = "returned") =>
        LET st == heap[dbf].symbols
            fit == Range(error_context.val.symbols_to_fit)
        IN /\ DOMAIN st = DOMAIN reduced.symbols
           /\ heap[dbf].parameters = reduced.parameters
           /\ \A x \in fit :
                  /\ x \in DOMAIN st
                  /\ st[x].kind # "Piecewise"
                  /\ original.symbols[x].kind = "Piecewise"
                         => st[x] = original.symbols[x].args[1]
           /\ \A x \in DOMAIN st \ fit : st[x] = reduced.symbols[x]
    /\ \A i \in DOMAIN residual_objs :
           /\ residual_objs[i].database = heap[dbf]
           /\ \A x \in Range(symbols_to_fit.val) :
                  residual_objs[i].database.symbols[x].kind # "Piecewise"

\* C9 witness: the call returned, a Piecewise symbol to fit was replaced,
\* another Piecewise symbol that is not fitted was kept, and residual objects exist.
C9_Witness ==
    /\ pc = "returned"
    /\ residual_objs # <<>>
    /\ \E x \in Range(symbols_to_fit.val) : original.symbols[x].kind = "Piecewise"
    /\ \E x \in DOMAIN heap[dbf].symbols : heap[dbf].symbols[x].kind = "Piecewise"

\* C10: on return, residual_objs holds one object per registered class, in
\* registration order, each constructed with the database copy (not the
\* caller's database) and with the symbols_to_fit list of the context.
C10_ResidualsInRegistrationOrder ==
    (pc = "returned") =>
        LET ctx == error_context.val
        IN /\ error_context.some
           /\ Len(ctx.residual_objs) = Len(registry)
           /\ \A i \in DOMAIN ctx.residual_objs :
                  /\ ctx.residual_objs[i].cls = registry[i]
                  /\ ctx.residual_objs[i].dbf = dbf
                  /\ ctx.residual_objs[i].dbf # CallerRef
                  /\ ctx.residual_objs[i].symbols_to_fit = ctx.symbols_to_fit

\* C10 witness: the call returned with two residual objects, built on a copy
\* that differs from the caller's database.
C10_Witness ==
    /\ pc = "returned"
    /\ Len(error_context.val.residual_objs) >= 2
    /\ heap[dbf] # heap[CallerRef]

-----------------------------------------------------------------------------
(* paramselect: values *)

\* Bounds of the specifications of paramselect.
MaxObservations == 2
MaxRecords == 2
MaxRows == 3

\* Temperatures are in hundredths of a kelvin: 298.15 K is 29815.
TempFilter == 29815

\* np.log(0): minus infinity, below every finite score.
NegInf == -1000

\* The properties, in the order fit_formation_energy fits them.
Props == <<"CPM_FORM", "SM_FORM", "HM_FORM">>

\* The default features of each property (lines 201-203).
DefaultFeatures ==
    [CPM_FORM |-> <<"T*log(T)", "T**2", "T**(-1)", "T**3">>,
     SM_FORM |-> <<"T">>,
     HM_FORM |-> <<"1">>]

\* feature_transforms[prop](x), as sympy simplifies it for the features above:
\* CPM: -T*diff(x, T, 2); SM: -diff(x, T); HM: x - T*diff(x, T).
FeatureTransform(p, x) ==
    CASE p \in {"CPM_FORM", "CPM"} ->
            (CASE x = "T*log(T)" -> "-1" [] x = "T**2" -> "-2*T"
               [] x = "T**(-1)" -> "-2/T**2" [] x = "T**3" -> "-6*T**2"
               [] x = "T" -> "0" [] x = "1" -> "0")
      [] p \in {"SM_FORM", "SM"} ->
            (CASE x = "T*log(T)" -> "-log(T) - 1" [] x = "T**2" -> "-2*T"
               [] x = "T**(-1)" -> "T**(-2)" [] x = "T**3" -> "-3*T**2"
               [] x = "T" -> "-1" [] x = "1" -> "0")
      [] p \in {"HM_FORM", "HM"} ->
            (CASE x = "T*log(T)" -> "-T" [] x = "T**2" -> "-T**2"
               [] x = "T**(-1)" -> "2/T" [] x = "T**3" -> "-2*T**3"
               [] x = "T" -> "0" [] x = "1" -> "1")

\* expr.subs({v.T: t}).evalf(): the value of an expression at a temperature.
Evalf(expr, t) == [expr |-> expr, T |-> t]

\* A dataset document.
Record(output, comps, phases, solver, temps, values) ==
    [output |-> output, components |-> comps, phases |-> phases, solver |-> solver,
     conditions |-> [T |-> temps], values |-> values]

\* The outcome of a call: a returned value or a raised exception.
Return(v) == [raised |-> FALSE, exc |-> NoException, value |-> v]
Raise(e) == [raised |-> TRUE, exc |-> e, value |-> <<>>]

\* np.concatenate(arrays, axis=-1) of one-dimensional arrays.
RECURSIVE Concatenate(_)
Concatenate(arrays) ==
    IF arrays = <<>> THEN <<>> ELSE Head(arrays) \o Concatenate(Tail(arrays))

\* An OrderedDict is a list of items with distinct keys, in insertion order.
Keys(d) == [i \in DOMAIN d |-> d[i].key]
Values(d) == [i \in DOMAIN d |-> d[i].value]

\* d[k] = v: the value of an existing key is replaced, a new key is appended.
SetItem(d, k, v) ==
    IF \E i \in DOMAIN d : d[i].key = k
    THEN [i \in DOMAIN d |-> IF d[i].key = k THEN [key |-> k, value |-> v] ELSE d[i]]
    ELSE Append(d, [key |-> k, value |-> v])

\* A merge that puts the new items before the old ones.
UpdateBefore(d, other) == other \o d

\* d.update(other); OrderedDict(pairs) is the update of an empty dict.
RECURSIVE UpdateFrom(_, _)
UpdateFrom(d, other) ==
    IF other = <<>> THEN d
    ELSE UpdateFrom(SetItem(d, Head(other).key, Head(other).value), Tail(other))
Update(d, other) == UpdateFrom(d, other)

\* zip(a, b)
Zip(a, b) ==
    LET n == IF Len(a) <= Len(b) THEN Len(a) ELSE Len(b)
    IN [i \in 1..n |-> [key |-> a[i], value |-> b[i]]]

-----------------------------------------------------------------------------
(* _build_feature_matrix *)

\* A filter that drops an observation at exactly 298.15 K.
KeepTemperatureStrict(t) == t > TempFilter

\* all_variables >= 298.15
KeepTemperature(t) == t >= TempFilter

\* _build_feature_matrix(prop, features, desired_data)
build_feature_matrix(p, feats, data) ==
    LET transformed_features == [j \in DOMAIN feats |-> FeatureTransform(p, feats[j])]
        all_variables ==
            SelectSeq(Concatenate([i \in DOMAIN data |-> data[i].conditions.T]),
                      KeepTemperature)
    IN IF data = <<>>
       THEN Raise(Exception("numpy.concatenate", "need at least one array to concatenate"))
       ELSE IF all_variables = <<>>
       THEN Raise(Exception("numpy.ndarray.__setitem__", "could not broadcast input array"))
       ELSE Return(Matrix(Len(all_variables), Len(transformed_features),
                [i \in DOMAIN all_variables |->
                    [j \in DOMAIN transformed_features |->
                        Evalf(transformed_features[j], all_variables[i])]]))

\* The temperatures of the observations, and the temperature arrays of a record.
Temperatures == {29814, 29815, 30000}
ExampleTemperatures == <<10000, 20000, 29815, 30000, 50000>>
TemperatureArrays == SeqsUpTo(Temperatures, MaxObservations) \cup {ExampleTemperatures}

\* An entry of a sublattice configuration: a species name or a list of names.
Str(name) == [str |-> TRUE, v |-> <<name>>]
List(names) == [str |-> FALSE, v |-> names]

\* The solver field of a document.
Solver(mode, configs) == [mode |-> mode, sublattice_configuration |-> configs]

\* A record of a matching query, with one value per temperature.
MatchingRecord(p, temps) ==
    Record(p, <<"A", "B">>, <<"FCC_A1">>, Solver("manual", <<<<Str("A"), Str("B")>>>>),
           temps, [i \in DOMAIN temps |-> i])

\* The property and feature tuple of a call: the defaults, and a custom tuple.
FeatureChoices ==
    {<<Props[i], DefaultFeatures[Props[i]]>> : i \in DOMAIN Props}
        \cup {<<"HM_FORM", <<"1", "T**2">>>>}

MatrixInit ==
    /\ \E c \in FeatureChoices :
           /\ prop = c[1]
           /\ feature_tuple = c[2]
           /\ desired_data \in SeqsUpTo({MatchingRecord(c[1], t) : t \in TemperatureArrays},
                                       MaxRecords)
    /\ datasets = <<>>
    /\ features = None
    /\ configuration = <<>>
    /\ parameters = <<>>
    /\ feature_matrix = Matrix(0, 0, <<>>)
    /\ data_quantities = <<>>
    /\ regression = <<>>
    /\ fits = <<>>
    /\ fpc = "call"
    /\ fexc = NoException
    /\ heap = [r \in Refs |-> NoDatabase]
    /\ ReduceIdle
    /\ ContextIdle

\* One call _build_feature_matrix(prop, features, desired_data).
BuildFeatureMatrixCall ==
    /\ fpc = "call"
    /\ LET r == build_feature_matrix(prop, feature_tuple, desired_data)
       IN IF r.raised
          THEN fpc' = "raised" /\ fexc' = r.exc /\ UNCHANGED feature_matrix
          ELSE fpc' = "returned" /\ feature_matrix' = r.value /\ UNCHANGED fexc
    /\ UNCHANGED <<heap, reduceVars, contextVars, datasets, features, configuration,
                   parameters, prop, feature_tuple, desired_data, data_quantities,
                   regression, fits>>

MatrixNext == BuildFeatureMatrixCall

SpecMatrix == MatrixInit /\ [][MatrixNext]_vars

\* The observations of the records, record by record, as <<record, index>> pairs.
RECURSIVE Observations(_, _)
Observations(data, r) ==
    IF r > Len(data) THEN <<>>
    ELSE [i \in DOMAIN data[r].conditions.T |-> <<r, i>>] \o Observations(data, r + 1)

\* C6: the matrix has one row per observation with T >= 298.15 (298.15 itself is
\* kept), in record order and then within-record order, and one column per
\* feature; temperatures {100, 200, 298.15, 300, 500} give 3 rows.
C6_OneRowPerKeptObservation ==
    (fpc = "returned") =>
        LET obs == Observations(desired_data, 1)
            TempOf(o) == desired_data[o[1]].conditions.T[o[2]]
            kept == {n \in DOMAIN obs : ~(TempOf(obs[n]) < 29815)}
            \* the n-th observation is the row that follows the kept ones before it
            RowOf(n) == Cardinality({k \in kept : k <= n})
        IN /\ feature_matrix.shape = <<Cardinality(kept), Len(feature_tuple)>>
           /\ Len(feature_matrix.rows) = Cardinality(kept)
           /\ \A n \in kept :
                  /\ Len(feature_matrix.rows[RowOf(n)]) = Len(feature_tuple)
                  /\ \A j \in DOMAIN feature_tuple :
                         feature_matrix.rows[RowOf(n)][j] =
                             Evalf(FeatureTransform(prop, feature_tuple[j]), TempOf(obs[n]))
           /\ (desired_data = <<MatchingRecord(prop, ExampleTemperatures)>>)
                  => Len(feature_matrix.rows) = 3

\* C6 witness: two records, the first with a dropped observation before one at
\* exactly 298.15 K, the second with a kept one before a dropped one.
C6_Witness ==
    /\ fpc = "returned"
    /\ Len(desired_data) = 2
    /\ desired_data[1].conditions.T = <<29814, 29815>>
    /\ desired_data[2].conditions.T = <<30000, 29814>>
    /\ Len(feature_matrix.rows) = 2
    /\ Len(feature_tuple) = 4

-----------------------------------------------------------------------------
(* _fit_parameters *)

\* Coefficients: 0.0 as np.zeros sets it, and coefficient j of clf.coef_ after the
\* fit of the first k columns of the regression problem `id`.
Zero == [id |-> "", fit |-> 0, column |-> 0]
Coef(id, k, j) == [id |-> id, fit |-> k, column |-> j]

\* What least squares finds for one matrix and response: for each number of
\* columns k, the logarithm of the residual sum of squares of the fit.
Regression(id, log_rss) == [id |-> id, log_rss |-> log_rss]

\* The values log(rss) takes in the model (NegInf: an exact fit).
LogRss == {NegInf, -2, 0, 3}

\* clf.fit(current_matrix, data_quantities) with the first num_params columns,
\* and the rss of lines 143-146.
LinearRegressionFit(reg, num_params) ==
    [coef_ |-> [j \in 1..num_params |-> Coef(reg.id, num_params, j)],
     log_rss |-> reg.log_rss[num_params]]

\* score = 2*num_params + current_matrix.shape[-2] * np.log(rss)
Score(num_params, m, log_rss) ==
    IF log_rss = NegInf THEN NegInf ELSE 2 * num_params + m * log_rss

\* An argmin that keeps the last of equal minima.
RECURSIVE ArgMinLastFrom(_, _, _)
ArgMinLastFrom(scores, i, best) ==
    IF i > Len(scores) THEN best
    ELSE ArgMinLastFrom(scores, i + 1, IF scores[i] <= scores[best] THEN i ELSE best)
ArgMinLast(scores) == ArgMinLastFrom(scores, 2, 1)

\* np.argmin(model_scores): the first index of the minimum.
RECURSIVE ArgMinFrom(_, _, _)
ArgMinFrom(scores, i, best) ==
    IF i > Len(scores) THEN best
    ELSE ArgMinFrom(scores, i + 1, IF scores[i] < scores[best] THEN i ELSE best)
ArgMin(scores) == ArgMinFrom(scores, 2, 1)

\* _fit_parameters(feature_matrix, data_quantities, feature_tuple); reg is what
\* the regressions on that matrix and response find.
fit_parameters(fm, dq, ft, reg) ==
    LET n == fm.shape[2]
        model_scores == [k \in 1..n |-> Score(k, fm.shape[1], LinearRegressionFit(reg, k).log_rss)]
        results == [k \in 1..Len(ft) |-> [j \in 1..Len(ft) |->
                       IF k <= n /\ j <= k THEN LinearRegressionFit(reg, k).coef_[j]
                       ELSE Zero]]
    IN Update(<<>>, Zip(ft, results[ArgMin(model_scores)]))

SelectorInit ==
    /\ \E c \in FeatureChoices, m \in 1..MaxRows :
           /\ prop = c[1]
           /\ feature_tuple = c[2]
           /\ desired_data = <<MatchingRecord(c[1], [i \in 1..m |-> 30000 + i])>>
           /\ feature_matrix = build_feature_matrix(c[1], c[2], desired_data).value
           /\ data_quantities = Concatenate([i \in DOMAIN desired_data |-> desired_data[i].values])
           /\ \E lr \in [1..Len(c[2]) -> LogRss] : regression = Regression(c[1], lr)
    /\ datasets = <<>>
    /\ features = None
    /\ configuration = <<>>
    /\ parameters = <<>>
    /\ fits = <<>>
    /\ fpc = "call"
    /\ fexc = NoException
    /\ heap = [r \in Refs |-> NoDatabase]
    /\ ReduceIdle
    /\ ContextIdle

\* One call _fit_parameters(feature_matrix, data_quantities, feature_tuple).
FitParametersCall ==
    /\ fpc = "call"
    /\ parameters' = fit_parameters(feature_matrix, data_quantities, feature_tuple, regression)
    /\ fpc' = "returned"
    /\ UNCHANGED <<heap, reduceVars, contextVars, datasets, features, configuration,
                   prop, feature_tuple, desired_data, feature_matrix, data_quantities,
                   regression, fits, fexc>>

SelectorNext == FitParametersCall

SpecSelector == SelectorInit /\ [][SelectorNext]_vars

\* The scores of the prefix models of the current regression problem.
ScoreOf(k) == Score(k, feature_matrix.shape[1], regression.log_rss[k])

\* C5: the mapping has N entries, one per feature in tuple order; with k* the
\* smallest k whose score is the minimum, the features up to k* map to the
\* coefficients of the prefix model k* and the features after k* map to 0.
C5_FirstMinimumPrefixModel ==
    (fpc = "returned") =>
        LET N == Len(feature_tuple)
            kstar == CHOOSE k \in 1..N :
                         /\ \A i \in 1..N : ScoreOf(k) <= ScoreOf(i)
                         /\ \A i \in 1..(k - 1) : ScoreOf(i) > ScoreOf(k)
        IN /\ Len(parameters) = N
           /\ feature_matrix.shape[2] = N
           /\ \A j \in 1..N :
                  /\ parameters[j].key = feature_tuple[j]
                  /\ parameters[j].value =
                         IF j <= kstar THEN Coef(prop, kstar, j) ELSE Zero

\* C5 witness: four features, the minimum score is attained by k = 2 and again
\* by k = 4, and the mapping ends in zeros.
C5_Witness ==
    /\ fpc = "returned"
    /\ Len(feature_tuple) = 4
    /\ ScoreOf(2) = ScoreOf(4) /\ ScoreOf(2) < ScoreOf(1) /\ ScoreOf(2) < ScoreOf(3)
    /\ ScoreOf(2) # NegInf
    /\ parameters[2].value = Coef(prop, 2, 2)
    /\ parameters[4].value = Zero

-----------------------------------------------------------------------------
(* fit_formation_energy *)

\* Bound of the fitter's specification: the number of documents in the store.
MaxDocuments == 3

\* _symmetry_filter(x, config): x is the solver field of a document.  The
\* entries of config are lists; str(tc) is the text of a list, which is neither
\* part of a species name nor an element of a list of names, so a pair matches
\* exactly when dc is a name that the list tc contains.
symmetry_filter(x, config) ==
    IF Len(config) # Len(x.sublattice_configuration[1]) THEN FALSE
    ELSE IF x.mode = "manual"
    THEN \E c \in DOMAIN x.sublattice_configuration :
             LET data_config == x.sublattice_configuration[c]
                 n == IF Len(config) <= Len(data_config) THEN Len(config)
                      ELSE Len(data_config)
             IN \/ config = data_config
                \/ \A i \in 1..n : data_config[i].str /\ data_config[i].v[1] \in Range(config[i].v)
    ELSE FALSE

\* _get_data(comps, phase_name, configuration, datasets, prop)
get_data(comps, phase_name, config, docs, p) ==
    SelectSeq(docs, LAMBDA d : /\ d.output = p
                               /\ d.components = comps
                               /\ symmetry_filter(d.solver, config)
                               /\ d.phases = <<phase_name>>)

\* Lines 206-208: entries that are not lists are wrapped in a list.
WrapConfiguration(config) ==
    [idx \in DOMAIN config |-> IF config[idx].str THEN List(config[idx].v) ELSE config[idx]]

\* a[-n:] for n >= 1: the last n elements, or all of a when it has fewer.
LastN(a, n) == SubSeq(a, IF n > 0 /\ Len(a) > n THEN Len(a) - n + 1 ELSE 1, Len(a))

\* np.dot(fixed_portion, list(parameters.values())): the columns of the matrix
\* (one per feature fitted so far) must be as many as the values.
DotAligned(ncolumns, d) == ncolumns = Len(Values(d))

\* The arguments of the calls of the model.
Comps == <<"A", "B">>
PhaseName == "FCC_A1"
Configuration == <<Str("A"), Str("B")>>

\* A document with the values base+1, base+2, ... recorded with its temperatures.
DataRecord(p, phases, mode, temps, base) ==
    Record(p, Comps, phases, Solver(mode, <<<<Str("A"), Str("B")>>>>),
           temps, [i \in DOMAIN temps |-> base + i])

\* The documents of the store.
DocumentUniverse ==
    {DataRecord("CPM_FORM", <<"FCC_A1">>, "manual", <<20000, 29815, 40000>>, 10),
     DataRecord("CPM_FORM", <<"FCC_A1">>, "manual", <<30000, 10000>>, 20),
     DataRecord("CPM_FORM", <<"BCC_A2">>, "manual", <<30000>>, 30),
     DataRecord("SM_FORM", <<"FCC_A1">>, "manual", <<29815, 30000>>, 40),
     DataRecord("SM_FORM", <<"FCC_A1">>, "automatic", <<30000>>, 50),
     DataRecord("HM_FORM", <<"FCC_A1">>, "manual", <<30000>>, 60),
     DataRecord("HM_FORM", <<"FCC_A1">>, "manual", <<10000>>, 70)}

\* The values log(rss) takes in the fits of the stages.
StageLogRss == {NegInf, 0}

\* The features argument: None (the defaults), or a dict of the caller's.
FeatureDicts ==
    {None,
     Some([CPM_FORM |-> <<"T*log(T)">>, SM_FORM |-> <<"T">>, HM_FORM |-> <<"1", "T**2">>]),
     Some([CPM_FORM |-> <<"T*log(T)", "T**2">>, SM_FORM |-> <<"T">>,
           HM_FORM |-> <<"1", "T**2">>]),
     Some([CPM_FORM |-> <<"T*log(T)", "T">>, SM_FORM |-> <<"T">>, HM_FORM |-> <<"1">>])}

FormationInit ==
    /\ datasets \in SeqsUpTo(DocumentUniverse, MaxDocuments)
    /\ features \in FeatureDicts
    /\ configuration = Configuration
    /\ parameters = <<>>
    /\ prop = ""
    /\ feature_tuple = <<>>
    /\ desired_data = <<>>
    /\ feature_matrix = Matrix(0, 0, <<>>)
    /\ data_quantities = <<>>
    /\ regression = <<>>
    /\ fits = <<>>
    /\ fpc = "call"
    /\ fexc = NoException
    /\ heap = [r \in Refs |-> NoDatabase]
    /\ ReduceIdle
    /\ ContextIdle

\* Lines 200-208: the default features and the wrapped configuration.
NormalizeArguments ==
    /\ fpc = "call"
    /\ features' = IF features.some THEN features ELSE Some(DefaultFeatures)
    /\ configuration' = WrapConfiguration(configuration)
    /\ fpc' = "CPM_FORM"
    /\ UNCHANGED <<heap, reduceVars, contextVars, datasets, parameters, prop,
                   feature_tuple, desired_data, feature_matrix, data_quantities,
                   regression, fits, fexc>>

\* The stage of property p, whose fixed portion covers the features `fixed`
\* fitted by the stages before it: the query, the matrix, the response vector,
\* the fixed portion subtracted from it, the selection and the merge.
FitStage(p, fixed, nextpc) ==
    /\ fpc = p
    /\ prop' = p
    /\ feature_tuple' = features.val[p]
    /\ desired_data' = get_data(Comps, PhaseName, configuration, datasets, p)
    /\ LET m == build_feature_matrix(p, features.val[p], desired_data')
           values == Concatenate([i \in DOMAIN desired_data' |-> desired_data'[i].values])
       IN IF m.raised
          THEN /\ fpc' = "raised" /\ fexc' = m.exc
               /\ UNCHANGED <<feature_matrix, data_quantities, regression, parameters, fits>>
          ELSE /\ feature_matrix' = m.value
               /\ data_quantities' = LastN(values, m.value.shape[1])
               /\ IF p # "CPM_FORM" /\ ~DotAligned(Len(fixed), parameters)
                  THEN /\ fpc' = "raised"
                       /\ fexc' = Exception("numpy.dot", "shapes not aligned")
                       /\ UNCHANGED <<regression, parameters, fits>>
                  ELSE /\ \E lr \in [1..Len(features.val[p]) -> StageLogRss] :
                              regression' = Regression(p, lr)
                       /\ LET selected == fit_parameters(feature_matrix', data_quantities',
                                                         features.val[p], regression')
                          IN /\ parameters' = Update(parameters, selected)
                             /\ fits' = Append(fits, [prop |-> p, result |-> selected])
                       /\ fpc' = nextpc
                       /\ UNCHANGED fexc
    /\ UNCHANGED <<heap, reduceVars, contextVars, datasets, features, configuration>>

\* Lines 213-218: the heat capacity of formation.
FitHeatCapacity == FitStage("CPM_FORM", <<>>, "SM_FORM")

\* Lines 220-232: the entropy of formation.
FitEntropy == FitStage("SM_FORM", features.val["CPM_FORM"], "HM_FORM")

\* Lines 234-247: the enthalpy of formation.
FitEnthalpy ==
    FitStage("HM_FORM", features.val["CPM_FORM"] \o features.val["SM_FORM"], "return")

\* Line 249: the merged mapping is returned.
ReturnParameters ==
    /\ fpc = "return"
    /\ fpc' = "returned"
    /\ UNCHANGED <<heap, reduceVars, contextVars, datasets, features, configuration,
                   parameters, prop, feature_tuple, desired_data, feature_matrix,
                   data_quantities, regression, fits, fexc>>

FormationNext ==
    \/ NormalizeArguments
    \/ FitHeatCapacity
    \/ FitEntropy
    \/ FitEnthalpy
    \/ ReturnParameters

SpecFormation == FormationInit /\ [][FormationNext]_vars

\* C7: when the query of a property returns no record, fit_formation_energy
\* raises an error of its own for the missing data; it neither lets a numeric
\* exception of numpy propagate nor goes on to return a mapping.
C7_NoDataErrorRaised ==
    (prop # "" /\ desired_data = <<>>) =>
        /\ fpc = "raised"
        /\ fexc.origin \in {"paramselect._get_data", "paramselect.fit_formation_energy"}

\* The features of the three properties, in the order of the stages.
AllFeatures ==
    features.val["CPM_FORM"] \o features.val["SM_FORM"] \o features.val["HM_FORM"]

\* C8: the selector runs for CPM_FORM, SM_FORM, HM_FORM in that order; the
\* returned mapping holds the features of the three sets, each once, in that
\* order, and the value of every feature is the one its own property's
\* selector call produced: no later stage changes an earlier coefficient.
C8_StagesMergedUnchanged ==
    (fpc = "returned") =>
        /\ [i \in DOMAIN fits |-> fits[i].prop] = Props
        /\ Keys(parameters) = AllFeatures
        /\ \A i \in DOMAIN fits : \A j \in DOMAIN fits[i].result :
               \E k \in DOMAIN parameters : parameters[k] = fits[i].result[j]

\* No feature occurs twice among the features of the three properties.
FeaturesDistinct ==
    \A i, j \in DOMAIN AllFeatures : AllFeatures[i] = AllFeatures[j] => i = j

\* C8, amended: when no feature occurs in two of the three feature sets (as in
\* the default sets), the selector runs for CPM_FORM, SM_FORM, HM_FORM in that
\* order and the returned mapping is the results of the three calls one after
\* the other: every feature once, in that order, with the value its own
\* property's call produced.
C8_MergedWhenFeaturesDistinct ==
    (fpc = "returned" /\ FeaturesDistinct) =>
        /\ [i \in DOMAIN fits |-> fits[i].prop] = Props
        /\ parameters = fits[1].result \o fits[2].result \o fits[3].result
        /\ Keys(parameters) = AllFeatures

\* C8 witness: the default features, a heat capacity model of two terms and a
\* mapping of six entries returned.
C8_Witness ==
    /\ fpc = "returned"
    /\ features.val = DefaultFeatures
    /\ Len(parameters) = 6
    /\ parameters[2].value = Coef("CPM_FORM", 2, 2)
    /\ parameters[3].value = Zero
    /\ parameters[5].value = Coef("SM_FORM", 1, 1)
    /\ parameters[6].value = Coef("HM_FORM", 1, 1)

\* The values recorded with the temperatures that survive the filter of line
\* 162, in the order of the concatenated records.
SurvivingValues(data) ==
    LET temps == Concatenate([i \in DOMAIN data |-> data[i].conditions.T])
        values == Concatenate([i \in DOMAIN data |-> data[i].values])
        kept == SelectSeq([i \in DOMAIN temps |-> i], LAMBDA i : KeepTemperature(temps[i]))
    IN [k \in DOMAIN kept |-> values[kept[k]]]

\* The stage of the property `prop` has handed its response vector to the
\* selector.
ResponseHanded ==
    /\ prop # ""
    /\ fits # <<>>
    /\ fits[Len(fits)].prop = prop

\* Every record queried has one value per temperature.
ElementWise ==
    \A i \in DOMAIN desired_data :
        Len(desired_data[i].values) = Len(desired_data[i].conditions.T)

\* C11: for each of the three properties, when the records' values correspond
\* element-wise with their temperatures, the response vector handed to the
\* selector has as many entries as the feature matrix has rows and its i-th
\* entry is the value recorded with the i-th surviving temperature.
C11_ResponseAlignedWithRows ==
    (ResponseHanded /\ ElementWise) =>
        /\ Len(data_quantities) = feature_matrix.shape[1]
        /\ data_quantities = SurvivingValues(desired_data)

\* The length of the response vector alone: as many entries as rows.
ResponseAsLongAsRows ==
    (ResponseHanded /\ ElementWise) => Len(data_quantities) = feature_matrix.shape[1]

=============================================================================
